---------------------------- MODULE Spec2Model ----------------------------
(***************************************************************************)
(* Model of src/main.py (ExtractTextFromSlide): the sentence-aware block   *)
(* segmentation, the per-page native/OCR merge, the document assembly and  *)
(* the command-line run.                                                   *)
(*                                                                         *)
(* A Python str is modelled as a sequence of one-character strings, so     *)
(* that slicing, strip(), split(), lower() and the regular expressions of  *)
(* the source are computed character by character.                         *)
(*                                                                         *)
(* Four specifications share the module, one per sub-system:               *)
(*   SegSpec  - dividi_in_blocchi_con_frasi, statement by statement        *)
(*   MrgSpec  - unisci_testo_pagina on a (native, ocr) pair                *)
(*   DocSpec  - estrai_testo_completo_pdf with its two extractors          *)
(*   RunSpec  - __main__ and elabora_cartella                              *)
(***************************************************************************)
EXTENDS Integers, Sequences, FiniteSets, TLC

VARIABLES seg, mrg, doc, run

vars == <<seg, mrg, doc, run>>

(***************************************************************************)
(* Bounds of the model.                                                    *)
(***************************************************************************)
MaxTextLen == 6
MaxBudget == 3
MaxNatPieces == 1
MaxOcrPieces == 2
MaxPages == 2
MaxFiles == 2
MaxAnsLen == 2

(***************************************************************************)
(* Constants of the program.                                               *)
(***************************************************************************)
\* a page text shorter than this, stripped, counts as missing
MinPageLen == 10
\* an OCR fragment shorter than this, stripped, is never a supplement
MinFraseLen == 15
\* similarity above 0.8: the OCR page duplicates the native page
SogliaPaginaPct == 80
\* similarity above 0.85: the OCR fragment duplicates a native fragment
SogliaFrasePct == 85
\* at least 60% of the characters of a sentence must be valid ones
MinValidiPct == 60
\* a non-word character repeated 5 times in a row is noise
MinRipetuti == 5
\* the words per block of an empty answer
DefaultParole == 100

(***************************************************************************)
(* Python str helpers.                                                     *)
(***************************************************************************)
\* str.isspace() on the characters of the model's alphabets
IsSpace(c) == c = " "

\* the character class [.!?] of the sentence-splitting regular expressions
IsDelim(c) == c \in {".", "!", "?"}

\* str.strip(): leading and trailing whitespace removed
RECURSIVE LStrip(_)
LStrip(s) ==
    IF s # <<>> /\ IsSpace(Head(s)) THEN LStrip(Tail(s)) ELSE s

RECURSIVE RStrip(_)
RStrip(s) ==
    IF s # <<>> /\ IsSpace(s[Len(s)]) THEN RStrip(SubSeq(s, 1, Len(s) - 1)) ELSE s

Strip(s) == RStrip(LStrip(s))

\* len(s.split()): the number of maximal runs of non-whitespace characters
WordCount(s) ==
    Cardinality({i \in 1..Len(s) :
                    /\ ~IsSpace(s[i])
                    /\ (i = 1 \/ IsSpace(s[i - 1]))})

\* sep.join(parts)
RECURSIVE Join(_, _)
Join(parts, sep) ==
    IF parts = <<>> THEN <<>>
    ELSE IF Len(parts) = 1 THEN parts[1]
    ELSE parts[1] \o sep \o Join(Tail(parts), sep)

\* index of the first sentence terminator of s, 0 when there is none
FirstDelim(s) ==
    IF \E i \in 1..Len(s) : IsDelim(s[i])
    THEN CHOOSE i \in 1..Len(s) :
            IsDelim(s[i]) /\ \A j \in 1..(i - 1) : ~IsDelim(s[j])
    ELSE 0

\* last index of the run of terminators that starts at i (the greedy +)
DelimRunEnd(s, i) ==
    CHOOSE j \in i..Len(s) :
        /\ \A k \in i..j : IsDelim(s[k])
        /\ (j = Len(s) \/ ~IsDelim(s[j + 1]))

\* re.split(r'([.!?]+)', s): text, terminators, text, ..., text
RECURSIVE SplitKeep(_)
SplitKeep(s) ==
    IF FirstDelim(s) = 0 THEN <<s>>
    ELSE LET i == FirstDelim(s)
             j == DelimRunEnd(s, i)
         IN  <<SubSeq(s, 1, i - 1), SubSeq(s, i, j)>>
                \o SplitKeep(SubSeq(s, j + 1, Len(s)))

\* re.split(r'[.!?]+', s): the texts between the runs of terminators
RECURSIVE SplitDrop(_)
SplitDrop(s) ==
    IF FirstDelim(s) = 0 THEN <<s>>
    ELSE LET i == FirstDelim(s)
             j == DelimRunEnd(s, i)
         IN  <<SubSeq(s, 1, i - 1)>> \o SplitDrop(SubSeq(s, j + 1, Len(s)))

(***************************************************************************)
(* dividi_in_blocchi_con_frasi                                             *)
(***************************************************************************)
\* the sentence fragments: each text with its terminators, stripped, then
\* the trailing text when it is not blank
FrasiComplete(testo) ==
    LET frasi == SplitKeep(testo)
        n == Len(frasi)
        pairs == [k \in 1..((n - 1) \div 2) |->
                    Strip(frasi[2 * k - 1] \o frasi[2 * k])]
    IN  IF n % 2 = 1 /\ Strip(frasi[n]) # <<>>
        THEN Append(pairs, Strip(frasi[n]))
        ELSE pairs

\* the characters of the texts given to the segmentation
SegAlphabet == {"a", " ", ".", "?"}

RECURSIVE SeqsUpTo(_, _)
SeqsUpTo(S, n) ==
    IF n = 0 THEN {<<>>}
    ELSE LET shorter == SeqsUpTo(S, n - 1)
         IN  shorter \cup {Append(s, c) : s \in {t \in shorter : Len(t) = n - 1}, c \in S}

SegIdle == [pc |-> "idle"]
MrgIdle == [pc |-> "idle"]
DocIdle == [pc |-> "idle"]
RunIdle == [pc |-> "idle"]

SegInit ==
    /\ \E testo \in SeqsUpTo(SegAlphabet, MaxTextLen), parole \in 1..MaxBudget :
          seg = [pc |-> "split",
                 testo |-> testo,
                 parole_per_blocco |-> parole,
                 frasi_complete |-> <<>>,
                 next |-> 1,
                 blocchi |-> <<>>,
                 blocchi_frasi |-> <<>>,
                 blocco_corrente |-> <<>>,
                 conteggio_parole |-> 0,
                 risultato |-> <<>>]
    /\ mrg = MrgIdle
    /\ doc = DocIdle
    /\ run = RunIdle

\* lines 259-272: split into fragments, empty accumulators
SegSplit ==
    /\ seg.pc = "split"
    /\ seg' = [seg EXCEPT !.pc = "loop",
                          !.frasi_complete = FrasiComplete(seg.testo)]
    /\ UNCHANGED <<mrg, doc, run>>

\* PackFrase closing the open block only once it has already overflowed
PackFraseLate(b, frase) ==
    LET num_parole == WordCount(frase)
    IN  IF b.conteggio_parole > b.parole_per_blocco
           /\ b.blocco_corrente # <<>>
        THEN [b EXCEPT !.blocchi = Append(@, Join(b.blocco_corrente, <<" ">>)),
                       !.blocchi_frasi = Append(@, b.blocco_corrente),
                       !.blocco_corrente = <<frase>>,
                       !.conteggio_parole = num_parole]
        ELSE [b EXCEPT !.blocco_corrente = Append(@, frase),
                       !.conteggio_parole = @ + num_parole]

\* lines 278-284: one fragment of the loop, on the state b of the function
PackFrase(b, frase) ==
    LET num_parole == WordCount(frase)
    IN  IF b.conteggio_parole + num_parole > b.parole_per_blocco
           /\ b.blocco_corrente # <<>>
        THEN [b EXCEPT !.blocchi = Append(@, Join(b.blocco_corrente, <<" ">>)),
                       !.blocchi_frasi = Append(@, b.blocco_corrente),
                       !.blocco_corrente = <<frase>>,
                       !.conteggio_parole = num_parole]
        ELSE [b EXCEPT !.blocco_corrente = Append(@, frase),
                       !.conteggio_parole = @ + num_parole]

\* lines 274-284: the body of the loop for the next fragment
SegStep ==
    /\ seg.pc = "loop"
    /\ seg.next <= Len(seg.frasi_complete)
    /\ seg' = [PackFrase(seg, seg.frasi_complete[seg.next]) EXCEPT !.next = @ + 1]
    /\ UNCHANGED <<mrg, doc, run>>

\* FlushBlocco forgetting the open block at the end of the text
FlushBloccoNever(b) == b

\* lines 286-289: the open block is emitted, the blocks are joined
FlushBlocco(b) ==
    IF b.blocco_corrente # <<>>
    THEN [b EXCEPT !.blocchi = Append(@, Join(b.blocco_corrente, <<" ">>)),
                   !.blocchi_frasi = Append(@, b.blocco_corrente)]
    ELSE b

SegFinish ==
    /\ seg.pc = "loop"
    /\ seg.next > Len(seg.frasi_complete)
    /\ LET f == FlushBlocco(seg)
       IN  seg' = [f EXCEPT !.pc = "done",
                            !.risultato = Join(f.blocchi, <<"\n", "\n">>)]
    /\ UNCHANGED <<mrg, doc, run>>

SegNext == SegSplit \/ SegStep \/ SegFinish

SegSpec == SegInit /\ [][SegNext]_vars

(***************************************************************************)
(* Claims on the segmentation (SegSpec).                                   *)
(***************************************************************************)
RECURSIVE SumWords(_)
SumWords(frasi) ==
    IF frasi = <<>> THEN 0 ELSE WordCount(Head(frasi)) + SumWords(Tail(frasi))

RECURSIVE Flatten(_)
Flatten(seqs) ==
    IF seqs = <<>> THEN <<>> ELSE Head(seqs) \o Flatten(Tail(seqs))

NonBlank(s) == SelectSeq(s, LAMBDA c : c \notin {" ", "\n"})

SegRunning == seg.pc \in {"loop", "done"}

\* C1: every emitted block either has at most budget_words words, or is made
\* of exactly one fragment whose own word count exceeds the budget; a block
\* of two or more fragments never exceeds the budget.
C1_BlockWithinBudget ==
    SegRunning =>
        \A i \in 1..Len(seg.blocchi) :
            \/ WordCount(seg.blocchi[i]) <= seg.parole_per_blocco
            \/ /\ Len(seg.blocchi_frasi[i]) = 1
               /\ WordCount(seg.blocchi_frasi[i][1]) > seg.parole_per_blocco

\* a finished run where a fragment longer than the budget sits alone in its
\* block, between two blocks that respect the budget
C1_Witness ==
    /\ seg.pc = "done"
    /\ Len(seg.blocchi) = 3
    /\ Len(seg.blocchi_frasi[2]) = 1
    /\ WordCount(seg.blocchi[2]) > seg.parole_per_blocco
    /\ WordCount(seg.blocchi[1]) <= seg.parole_per_blocco
    /\ WordCount(seg.blocchi[3]) <= seg.parole_per_blocco

\* C10: the blocks, in order, hold exactly the fragments of the splitting
\* step, none dropped, duplicated, reordered or split; no emitted block is
\* empty; the running word count is the sum over the open block; and the
\* non-blank characters of the output are those of the input text.
C10_LosslessOrdered ==
    /\ seg.pc = "loop" =>
          /\ Flatten(seg.blocchi_frasi) \o seg.blocco_corrente
                = SubSeq(seg.frasi_complete, 1, seg.next - 1)
          /\ seg.conteggio_parole = SumWords(seg.blocco_corrente)
    /\ seg.pc = "done" =>
          /\ Flatten(seg.blocchi_frasi) = seg.frasi_complete
          /\ NonBlank(seg.risultato) = NonBlank(seg.testo)
    /\ SegRunning =>
          /\ Len(seg.blocchi) = Len(seg.blocchi_frasi)
          /\ \A i \in 1..Len(seg.blocchi) :
                /\ seg.blocchi_frasi[i] # <<>>
                /\ seg.blocchi[i] = Join(seg.blocchi_frasi[i], <<" ">>)
                /\ seg.blocchi[i] # <<>>

\* a finished run of three fragments, the last one unterminated, in two
\* blocks
C10_Witness ==
    /\ seg.pc = "done"
    /\ Len(seg.frasi_complete) = 3
    /\ ~IsDelim(seg.testo[Len(seg.testo)])
    /\ Len(seg.blocchi) = 2

(***************************************************************************)
(* calcola_similarita: difflib.SequenceMatcher(None, a, b).ratio() on the  *)
(* lower-cased texts.  The texts of the model are far shorter than the 200 *)
(* characters at which difflib's automatic junk heuristic starts, so the   *)
(* matching is the plain Ratcliff/Obershelp recursion.                     *)
(***************************************************************************)
\* str.lower() on the letters of the model's alphabet
LowerChar(c) ==
    CASE c = "A" -> "a"
      [] c = "B" -> "b"
      [] c = "C" -> "c"
      [] c = "D" -> "d"
      [] c = "E" -> "e"
      [] OTHER -> c

Lower(s) == [i \in 1..Len(s) |-> LowerChar(s[i])]

\* length of the common run of a from i and b from j (0-based), inside
\* a[:ahi] and b[:bhi]
RECURSIVE CommonLen(_, _, _, _, _, _)
CommonLen(a, b, i, j, ahi, bhi) ==
    IF i < ahi /\ j < bhi /\ a[i + 1] = b[j + 1]
    THEN 1 + CommonLen(a, b, i + 1, j + 1, ahi, bhi)
    ELSE 0

\* SequenceMatcher.find_longest_match(alo, ahi, blo, bhi) without junk: the
\* longest common block of a[alo:ahi] and b[blo:bhi]; of the longest, the
\* one that starts earliest in a, and of those the earliest in b
find_longest_match(a, b, alo, ahi, blo, bhi) ==
    LET starts == {p \in (alo..(ahi - 1)) \X (blo..(bhi - 1)) :
                      /\ a[p[1] + 1] = b[p[2] + 1]
                      /\ \/ p[1] = alo
                         \/ p[2] = blo
                         \/ a[p[1]] # b[p[2]]}
        sized == {<<p[1], p[2], CommonLen(a, b, p[1], p[2], ahi, bhi)>> : p \in starts}
    IN  IF sized = {} THEN <<alo, blo, 0>>
        ELSE CHOOSE m \in sized :
                \A o \in sized :
                    \/ m[3] > o[3]
                    \/ m[3] = o[3] /\ m[1] < o[1]
                    \/ m[3] = o[3] /\ m[1] = o[1] /\ m[2] <= o[2]

\* the total size of SequenceMatcher.get_matching_blocks(): the longest
\* match, then the same to its left and to its right
RECURSIVE MatchTotal(_, _, _, _, _, _)
MatchTotal(a, b, alo, ahi, blo, bhi) ==
    IF alo >= ahi \/ blo >= bhi THEN 0
    ELSE LET m == find_longest_match(a, b, alo, ahi, blo, bhi)
         IN  IF m[3] = 0 THEN 0
             ELSE m[3] + MatchTotal(a, b, alo, m[1], blo, m[2])
                       + MatchTotal(a, b, m[1] + m[3], ahi, m[2] + m[3], bhi)

\* the similarity as the exact fraction num/den: 0.0 when a text is empty,
\* else 2.0 * matches / (len(a) + len(b))
calcola_similarita(testo1, testo2) ==
    IF testo1 = <<>> \/ testo2 = <<>> THEN [num |-> 0, den |-> 1]
    ELSE [num |-> 2 * MatchTotal(Lower(testo1), Lower(testo2),
                                 0, Len(testo1), 0, Len(testo2)),
          den |-> Len(testo1) + Len(testo2)]

\* ratio > pct/100; exact for the float comparison on texts this short
RatioAbove(r, pct) == 100 * r.num > pct * r.den

(***************************************************************************)
(* is_frase_valida                                                         *)
(***************************************************************************)
Letters == {"a", "b", "c", "d", "e", "A", "B", "C", "D", "E"}

\* str.isalnum()
IsAlnum(c) == c \in Letters

\* \w of the regular expressions
IsWordChar(c) == IsAlnum(c) \/ c = "_"

\* the ASCII part of the punctuation and operators accepted at line 140
PunteggiaturaValida ==
    {".", ",", ";", ":", "!", "?", "(", ")", "+", "-", "*", "/", "=", "<", ">",
     "[", "]", "{", "}", "^", "_"}

\* re.search(r'([^\w\s])\1{4,}', frase)
HasRumoreRipetuto(frase) ==
    \E i \in 1..(Len(frase) - (MinRipetuti - 1)) :
        /\ ~IsWordChar(frase[i])
        /\ ~IsSpace(frase[i])
        /\ \A k \in 1..(MinRipetuti - 1) : frase[i + k] = frase[i]

is_frase_valida(frase) ==
    LET caratteri_validi ==
            Cardinality({i \in 1..Len(frase) :
                            \/ IsAlnum(frase[i])
                            \/ IsSpace(frase[i])
                            \/ frase[i] \in PunteggiaturaValida})
    IN  IF WordCount(frase) < 2 THEN FALSE
        ELSE IF Len(frase) > 0 /\ 100 * caratteri_validi < MinValidiPct * Len(frase)
             THEN FALSE
        ELSE IF HasRumoreRipetuto(frase) THEN FALSE
        ELSE TRUE

(***************************************************************************)
(* trova_frasi_uniche, unisci_testo_pagina                                 *)
(***************************************************************************)
Range(f) == {f[i] : i \in DOMAIN f}

\* line 183: the OCR sentence duplicates some sentence of the native text
Trovata(frase_pulita, frasi_base) ==
    \E frase_base \in frasi_base :
        RatioAbove(calcola_similarita(Lower(frase_pulita), Strip(frase_base)),
                   SogliaFrasePct)

\* trova_frasi_uniche keeping the sentences that fail is_frase_valida
trova_frasi_uniche_NoValid(testo_base, testo_ocr) ==
    IF testo_ocr = <<>> THEN <<>>
    ELSE LET frasi_base == Range(SplitDrop(Lower(testo_base)))
             puliti == [i \in DOMAIN SplitDrop(testo_ocr) |->
                           Strip(SplitDrop(testo_ocr)[i])]
         IN  SelectSeq(puliti,
                 LAMBDA f : /\ Len(f) >= MinFraseLen
                            /\ ~Trovata(f, frasi_base))

trova_frasi_uniche(testo_base, testo_ocr) ==
    IF testo_ocr = <<>> THEN <<>>
    ELSE IF testo_base = <<>>
    THEN LET puliti == [i \in DOMAIN SplitDrop(testo_ocr) |->
                           Strip(SplitDrop(testo_ocr)[i])]
         IN  SelectSeq(puliti,
                 LAMBDA f : Len(f) > MinFraseLen /\ is_frase_valida(f))
    ELSE LET frasi_base == Range(SplitDrop(Lower(testo_base)))
             puliti == [i \in DOMAIN SplitDrop(testo_ocr) |->
                           Strip(SplitDrop(testo_ocr)[i])]
         IN  SelectSeq(puliti,
                 LAMBDA f : /\ f # <<>>
                            /\ Len(f) >= MinFraseLen
                            /\ is_frase_valida(f)
                            /\ ~Trovata(f, frasi_base))

\* unisci_testo_pagina keeping the OCR text of a page it found similar
unisci_testo_pagina_SimReturnsOcr(testo_nativo, testo_ocr) ==
    IF testo_nativo = <<>> \/ Len(Strip(testo_nativo)) < MinPageLen
    THEN IF testo_ocr # <<>> THEN testo_ocr ELSE <<>>
    ELSE IF testo_ocr = <<>> \/ Len(Strip(testo_ocr)) < MinPageLen
    THEN testo_nativo
    ELSE IF RatioAbove(calcola_similarita(testo_nativo, testo_ocr), SogliaPaginaPct)
    THEN testo_ocr
    ELSE LET frasi_nuove == trova_frasi_uniche(testo_nativo, testo_ocr)
         IN  IF frasi_nuove # <<>>
             THEN testo_nativo \o <<".", " ">> \o Join(frasi_nuove, <<".", " ">>)
             ELSE testo_nativo

\* unisci_testo_pagina without the OCR fallback of a page with no native text
unisci_testo_pagina_NoOcrFallback(testo_nativo, testo_ocr) ==
    IF testo_nativo = <<>> \/ Len(Strip(testo_nativo)) < MinPageLen
    THEN testo_nativo
    ELSE IF testo_ocr = <<>> \/ Len(Strip(testo_ocr)) < MinPageLen
    THEN testo_nativo
    ELSE IF RatioAbove(calcola_similarita(testo_nativo, testo_ocr), SogliaPaginaPct)
    THEN testo_nativo
    ELSE LET frasi_nuove == trova_frasi_uniche(testo_nativo, testo_ocr)
         IN  IF frasi_nuove # <<>>
             THEN testo_nativo \o <<".", " ">> \o Join(frasi_nuove, <<".", " ">>)
             ELSE testo_nativo

\* lines 192-224
unisci_testo_pagina(testo_nativo, testo_ocr) ==
    IF testo_nativo = <<>> \/ Len(Strip(testo_nativo)) < MinPageLen
    THEN IF testo_ocr # <<>> THEN testo_ocr ELSE <<>>
    ELSE IF testo_ocr = <<>> \/ Len(Strip(testo_ocr)) < MinPageLen
    THEN testo_nativo
    ELSE IF RatioAbove(calcola_similarita(testo_nativo, testo_ocr), SogliaPaginaPct)
    THEN testo_nativo
    ELSE LET frasi_nuove == trova_frasi_uniche(testo_nativo, testo_ocr)
         IN  IF frasi_nuove # <<>>
             THEN testo_nativo \o <<".", " ">> \o Join(frasi_nuove, <<".", " ">>)
             ELSE testo_nativo

(***************************************************************************)
(* The page texts given to the merge: up to MaxNatPieces (native) and      *)
(* MaxOcrPieces (OCR) sentences of the vocabulary, joined by one space as  *)
(* the cleaning of the extracted text leaves them.                         *)
(***************************************************************************)
Chars5(c) == <<c, c, c, c, c>>

\* "aaaaa bbbbb ccccc."
PieceA == Chars5("a") \o <<" ">> \o Chars5("b") \o <<" ">> \o Chars5("c") \o <<".">>
\* "aaaaa bbbbb ccccE!": PieceA as an OCR engine may read it
PieceA2 == Chars5("a") \o <<" ">> \o Chars5("b") \o <<" ", "c", "c", "c", "c", "E", "!">>
\* "ddd eeeee bbbbb d?": a sentence of its own
PieceU == <<"d", "d", "d", " ">> \o Chars5("e") \o <<" ">> \o Chars5("b") \o <<" ", "d", "?">>
\* "eeeee ddddd #####.": a sentence ending in OCR noise
PieceX == Chars5("e") \o <<" ">> \o Chars5("d") \o <<" ">> \o Chars5("#") \o <<".">>
\* "ddd eeE.": a page title, shorter than MinPageLen
PieceS == <<"d", "d", "d", " ", "e", "e", "E", ".">>
\* "ddd eee.": the same title in lower case
PieceS2 == <<"d", "d", "d", " ", "e", "e", "e", ".">>

Vocabulary == {PieceA, PieceA2, PieceU, PieceX, PieceS, PieceS2}

PageTextsUpTo(n) == {Join(ps, <<" ">>) : ps \in SeqsUpTo(Vocabulary, n)}

MrgInit ==
    /\ \E n \in PageTextsUpTo(MaxNatPieces), o \in PageTextsUpTo(MaxOcrPieces) :
          mrg = [pc |-> "call", testo_nativo |-> n, testo_ocr |-> o, risultato |-> <<>>]
    /\ seg = SegIdle
    /\ doc = DocIdle
    /\ run = RunIdle

\* lines 192-224: the call returns
MrgCall ==
    /\ mrg.pc = "call"
    /\ mrg' = [mrg EXCEPT !.pc = "done",
                          !.risultato = unisci_testo_pagina(mrg.testo_nativo, mrg.testo_ocr)]
    /\ UNCHANGED <<seg, doc, run>>

MrgNext == MrgCall

MrgSpec == MrgInit /\ [][MrgNext]_vars

(***************************************************************************)
(* Claims on the page merge (MrgSpec).                                     *)
(***************************************************************************)
MrgDone == mrg.pc = "done"

PageSimilar ==
    RatioAbove(calcola_similarita(mrg.testo_nativo, mrg.testo_ocr), SogliaPaginaPct)

\* C4 as stated: whenever similarity(N, O) > 0.80, merge(N, O) returns
\* exactly N.
C4_SimilarReturnsNative_Original ==
    (MrgDone /\ PageSimilar) => mrg.risultato = mrg.testo_nativo

\* C4 amended: whenever N has at least 10 characters after trimming and
\* similarity(N, O) > 0.80, merge(N, O) returns exactly N.
C4_SimilarReturnsNative ==
    (MrgDone /\ Len(Strip(mrg.testo_nativo)) >= MinPageLen /\ PageSimilar)
        => mrg.risultato = mrg.testo_nativo

\* both texts long enough to be compared, similar but not equal
C4_Witness ==
    /\ MrgDone
    /\ Len(Strip(mrg.testo_nativo)) >= MinPageLen
    /\ Len(Strip(mrg.testo_ocr)) >= MinPageLen
    /\ PageSimilar
    /\ mrg.testo_ocr # mrg.testo_nativo
    /\ mrg.risultato = mrg.testo_nativo

\* the elements of f at the indices of idx, in increasing index order
RECURSIVE Pick(_, _)
Pick(f, idx) ==
    IF idx = {} THEN <<>>
    ELSE LET i == CHOOSE x \in idx : \A y \in idx : x <= y
         IN  <<f[i]>> \o Pick(f, idx \ {i})

\* a sentence that may be appended: valid, long enough, and not similar
\* above 0.85 to any sentence of the native text
IsSupplement(f, testo_nativo) ==
    /\ is_frase_valida(f)
    /\ Len(f) >= MinFraseLen
    /\ \A g \in Range(SplitDrop(Lower(testo_nativo))) :
          ~RatioAbove(calcola_similarita(Lower(f), Strip(g)), SogliaFrasePct)

MrgAppended ==
    /\ MrgDone
    /\ Len(Strip(mrg.testo_nativo)) >= MinPageLen
    /\ mrg.risultato # mrg.testo_nativo

\* C5: whenever merge appends OCR content, the result is N, then ". ", then
\* the ". "-join of a non-empty selection of the trimmed OCR fragments taken
\* in their OCR order, each of which is valid, at least 15 characters long
\* and at most 0.85 similar to every native fragment.
C5_SupplementsAreSound ==
    MrgAppended =>
        LET frasi_ocr == SplitDrop(mrg.testo_ocr)
        IN  \E idx \in SUBSET (1..Len(frasi_ocr)) :
                LET scelte == Pick([i \in 1..Len(frasi_ocr) |-> Strip(frasi_ocr[i])], idx)
                IN  /\ idx # {}
                    /\ mrg.risultato
                          = mrg.testo_nativo \o <<".", " ">> \o Join(scelte, <<".", " ">>)
                    /\ \A k \in 1..Len(scelte) : IsSupplement(scelte[k], mrg.testo_nativo)

\* an OCR page of a noisy sentence and a new sentence: the new one alone
\* is appended
C5_Witness ==
    /\ MrgAppended
    /\ \E f \in Range(SplitDrop(mrg.testo_ocr)) :
          Len(Strip(f)) >= MinFraseLen /\ ~is_frase_valida(Strip(f))
    /\ Len(mrg.risultato) > Len(mrg.testo_nativo) + MinFraseLen

\* C6: merge(N, "") is N for every N of at least 10 characters after
\* trimming, and merge("", O) is O for every non-empty O.
C6_FallbackToOnlySource ==
    MrgDone =>
        /\ (mrg.testo_ocr = <<>> /\ Len(Strip(mrg.testo_nativo)) >= MinPageLen)
              => mrg.risultato = mrg.testo_nativo
        /\ (mrg.testo_nativo = <<>> /\ mrg.testo_ocr # <<>>)
              => mrg.risultato = mrg.testo_ocr

\* a long OCR page merged with no native text
C6_Witness ==
    /\ MrgDone
    /\ mrg.testo_nativo = <<>>
    /\ Len(mrg.testo_ocr) >= MinPageLen
    /\ mrg.risultato = mrg.testo_ocr

(***************************************************************************)
(* estrai_testo_per_pagina_pdf, estrai_testo_ocr_per_pagina and            *)
(* estrai_testo_completo_pdf.                                              *)
(*                                                                         *)
(* A document is given by what its extraction engines deliver page by      *)
(* page, after pulisci_testo_ocr: a cleaned page text, or Raises when the  *)
(* engine throws on that page.  The PDF reader and the rasterizer may see  *)
(* different numbers of pages.                                             *)
(***************************************************************************)
\* the outcome of a page on which the engine throws: no text is <<"raises">>,
\* as every element of a text is a single character
Raises == <<"raises">>

\* cleaned page texts: a blank page, a sentence, another sentence
DocPageTexts == {<<>>, PieceA, PieceU}

PageOutcomes == DocPageTexts \cup {Raises}

DocInit ==
    /\ \E pn \in SeqsUpTo(PageOutcomes, MaxPages), po \in SeqsUpTo(PageOutcomes, MaxPages) :
          doc = [pc |-> "native",
                 pdf_native |-> pn,
                 pdf_ocr |-> po,
                 testi_nativi |-> <<>>,
                 testi_ocr |-> <<>>,
                 nativi_resi |-> <<>>,
                 ocr_resi |-> <<>>,
                 i |-> 0,
                 testi_finali |-> <<>>,
                 testo |-> <<>>]
    /\ seg = SegIdle
    /\ mrg = MrgIdle
    /\ run = RunIdle

\* lines 90-95: the native text of the next page is extracted and kept
NativePage ==
    /\ doc.pc = "native"
    /\ Len(doc.testi_nativi) < Len(doc.pdf_native)
    /\ doc.pdf_native[Len(doc.testi_nativi) + 1] # Raises
    /\ doc' = [doc EXCEPT !.testi_nativi = Append(@, doc.pdf_native[Len(@) + 1])]
    /\ UNCHANGED <<seg, mrg, run>>

\* lines 99-101: the reader throws on the next page, the function returns []
NativeRaises ==
    /\ doc.pc = "native"
    /\ Len(doc.testi_nativi) < Len(doc.pdf_native)
    /\ doc.pdf_native[Len(doc.testi_nativi) + 1] = Raises
    /\ doc' = [doc EXCEPT !.pc = "ocr", !.testi_nativi = <<>>, !.nativi_resi = <<>>]
    /\ UNCHANGED <<seg, mrg, run>>

\* line 97: every page was read
NativeReturn ==
    /\ doc.pc = "native"
    /\ Len(doc.testi_nativi) = Len(doc.pdf_native)
    /\ doc' = [doc EXCEPT !.pc = "ocr", !.nativi_resi = doc.testi_nativi]
    /\ UNCHANGED <<seg, mrg, run>>

\* lines 125-127: what the exception handler of the OCR extractor returns
OcrOnException(testi_ocr) == <<>>

\* lines 117-121: the next page image is recognised and kept
OcrPage ==
    /\ doc.pc = "ocr"
    /\ Len(doc.testi_ocr) < Len(doc.pdf_ocr)
    /\ doc.pdf_ocr[Len(doc.testi_ocr) + 1] # Raises
    /\ doc' = [doc EXCEPT !.testi_ocr = Append(@, doc.pdf_ocr[Len(@) + 1])]
    /\ UNCHANGED <<seg, mrg, run>>

\* lines 125-127: the OCR engine throws on the next page
OcrRaises ==
    /\ doc.pc = "ocr"
    /\ Len(doc.testi_ocr) < Len(doc.pdf_ocr)
    /\ doc.pdf_ocr[Len(doc.testi_ocr) + 1] = Raises
    /\ doc' = [doc EXCEPT !.pc = "pad",
                          !.testi_ocr = OcrOnException(doc.testi_ocr),
                          !.ocr_resi = OcrOnException(doc.testi_ocr)]
    /\ UNCHANGED <<seg, mrg, run>>

\* line 123: every page was recognised
OcrReturn ==
    /\ doc.pc = "ocr"
    /\ Len(doc.testi_ocr) = Len(doc.pdf_ocr)
    /\ doc' = [doc EXCEPT !.pc = "pad", !.ocr_resi = doc.testi_ocr]
    /\ UNCHANGED <<seg, mrg, run>>

Max(a, b) == IF a >= b THEN a ELSE b

\* PadTo putting the missing pages in front
PadToFront(lista, num_pagine) ==
    [k \in 1..(num_pagine - Len(lista)) |-> <<>>] \o lista

\* lines 240-243: while len(lista) < num_pagine: lista.append("")
PadTo(lista, num_pagine) ==
    lista \o [k \in 1..(num_pagine - Len(lista)) |-> <<>>]

\* lines 237-248
DocPad ==
    /\ doc.pc = "pad"
    /\ LET num_pagine == Max(Len(doc.testi_nativi), Len(doc.testi_ocr))
       IN  doc' = [doc EXCEPT !.pc = "merge",
                              !.testi_nativi = PadTo(@, num_pagine),
                              !.testi_ocr = PadTo(@, num_pagine),
                              !.i = 0,
                              !.testi_finali = <<>>]
    /\ UNCHANGED <<seg, mrg, run>>

\* lines 249-252: page i (0-based) is merged and kept when not empty
DocMergePage ==
    /\ doc.pc = "merge"
    /\ doc.i < Len(doc.testi_nativi)
    /\ LET testo_unito == unisci_testo_pagina(doc.testi_nativi[doc.i + 1],
                                              doc.testi_ocr[doc.i + 1])
       IN  doc' = [doc EXCEPT !.i = @ + 1,
                              !.testi_finali = IF testo_unito # <<>>
                                               THEN Append(@, testo_unito)
                                               ELSE @]
    /\ UNCHANGED <<seg, mrg, run>>

\* line 255
DocJoin ==
    /\ doc.pc = "merge"
    /\ doc.i = Len(doc.testi_nativi)
    /\ doc' = [doc EXCEPT !.pc = "done", !.testo = Join(doc.testi_finali, <<" ">>)]
    /\ UNCHANGED <<seg, mrg, run>>

DocNext ==
    \/ NativePage \/ NativeRaises \/ NativeReturn
    \/ OcrPage \/ OcrRaises \/ OcrReturn
    \/ DocPad \/ DocMergePage \/ DocJoin

DocSpec == DocInit /\ [][DocNext]_vars

(***************************************************************************)
(* Claims on the document assembly (DocSpec).                              *)
(***************************************************************************)
DocMerging == doc.pc \in {"merge", "done"}

\* page k of a list, the empty string beyond its end
PageOr(lista, k) == IF k <= Len(lista) THEN lista[k] ELSE <<>>

\* C2: when the OCR engine fails on one page, the OCR text of every other
\* page of the document, recognised before or after it, still reaches the
\* per-page merge.
C2_OcrFailureIsPerPage ==
    DocMerging =>
        \A k \in 1..Len(doc.pdf_ocr) :
            doc.pdf_ocr[k] # Raises => PageOr(doc.testi_ocr, k) = doc.pdf_ocr[k]

\* C7: the document text is the single-space join, in page order 0..N-1 with
\* N the longer length, of the non-empty merge(native[i], ocr[i]), the
\* shorter list padded at its end with empty strings.
C7_AssembledInPageOrder ==
    /\ DocMerging =>
          LET n == Max(Len(doc.nativi_resi), Len(doc.ocr_resi))
          IN  /\ doc.testi_nativi = [k \in 1..n |-> PageOr(doc.nativi_resi, k)]
              /\ doc.testi_ocr = [k \in 1..n |-> PageOr(doc.ocr_resi, k)]
    /\ doc.pc = "done" =>
          LET n == Max(Len(doc.nativi_resi), Len(doc.ocr_resi))
              uniti == [k \in 1..n |->
                          unisci_testo_pagina(PageOr(doc.nativi_resi, k),
                                              PageOr(doc.ocr_resi, k))]
          IN  doc.testo = Join(SelectSeq(uniti, LAMBDA t : t # <<>>), <<" ">>)

\* more OCR pages than native pages, a first page that merges to nothing,
\* and a second page that only the OCR delivers
C7_Witness ==
    /\ doc.pc = "done"
    /\ Len(doc.nativi_resi) = 1
    /\ Len(doc.ocr_resi) = 2
    /\ doc.nativi_resi[1] = <<>>
    /\ doc.ocr_resi[1] = <<>>
    /\ doc.ocr_resi[2] # <<>>
    /\ doc.testo = doc.ocr_resi[2]

(***************************************************************************)
(* __main__ and elabora_cartella.                                          *)
(*                                                                         *)
(* The PDF files of the input directory are named <n>.pdf, so that their   *)
(* natural order is the order of the numbers n; each is given by the text  *)
(* estrai_testo_completo_pdf returns for it.                               *)
(***************************************************************************)
\* the whole of dividi_in_blocchi_con_frasi as a function of its arguments
RECURSIVE PackFrom(_, _, _)
PackFrom(b, frasi, k) ==
    IF k > Len(frasi) THEN b ELSE PackFrom(PackFrase(b, frasi[k]), frasi, k + 1)

dividi_in_blocchi_con_frasi(testo, parole_per_blocco) ==
    LET b0 == [parole_per_blocco |-> parole_per_blocco,
               blocchi |-> <<>>,
               blocchi_frasi |-> <<>>,
               blocco_corrente |-> <<>>,
               conteggio_parole |-> 0]
    IN  Join(FlushBlocco(PackFrom(b0, FrasiComplete(testo), 1)).blocchi, <<"\n", "\n">>)

\* len(testo_formattato.split('\n\n'))
NumBlocchi(testo_formattato) ==
    1 + Cardinality({k \in 1..(Len(testo_formattato) - 1) :
                        testo_formattato[k] = "\n" /\ testo_formattato[k + 1] = "\n"})

\* ordina_file_naturalmente on files named <n>.pdf: increasing n
RECURSIVE ordina_file_naturalmente(_)
ordina_file_naturalmente(files) ==
    IF files = {} THEN <<>>
    ELSE LET least == CHOOSE x \in files : \A y \in files : x <= y
         IN  <<least>> \o ordina_file_naturalmente(files \ {least})

Digits == {"0", "1", "2", "3", "4", "5", "6", "7", "8", "9"}

DigitVal(c) ==
    CASE c = "0" -> 0 [] c = "1" -> 1 [] c = "2" -> 2 [] c = "3" -> 3 [] c = "4" -> 4
      [] c = "5" -> 5 [] c = "6" -> 6 [] c = "7" -> 7 [] c = "8" -> 8 [] c = "9" -> 9

RECURSIVE DecimalVal(_)
DecimalVal(ds) ==
    IF ds = <<>> THEN 0 ELSE 10 * DecimalVal(SubSeq(ds, 1, Len(ds) - 1)) + DigitVal(ds[Len(ds)])

\* int(s) on a stripped answer: an optional sign, then one or more digits;
\* anything else is a ValueError
IntParse(s) ==
    LET signed == s # <<>> /\ s[1] \in {"+", "-"}
        ds == IF signed THEN Tail(s) ELSE s
    IN  IF ds # <<>> /\ \A k \in 1..Len(ds) : ds[k] \in Digits
        THEN [ok |-> TRUE,
              val |-> IF signed /\ s[1] = "-" THEN 0 - DecimalVal(ds) ELSE DecimalVal(ds)]
        ELSE [ok |-> FALSE, val |-> 0]

\* the characters typed at the prompt
AnswerAlphabet == {"0", "2", "-", "+", "x", " "}

\* the texts of the documents: nothing extracted, one sentence, two sentences
RunDocTexts == {<<>>, <<"a", ".">>, <<"a", " ", "a", ".", " ", "a", ".">>}

\* the directories: which of the files 1.pdf .. MaxFiles.pdf exist, and the
\* text of each
Cartelle == UNION {[S -> RunDocTexts] : S \in SUBSET (1..MaxFiles)}

\* no answer read yet, no exit status yet
NoAnswer == <<"none">>
Running == 0 - 1

RunInit ==
    /\ \E libs \in BOOLEAN, argc \in 1..2, esiste \in BOOLEAN, c \in Cartelle :
          run = [pc |-> "import",
                 librerie |-> libs,
                 argc |-> argc,
                 esiste |-> esiste,
                 cartella |-> IF esiste THEN c ELSE <<>>,
                 pdf_files |-> <<>>,
                 output_creata |-> FALSE,
                 parole_input |-> NoAnswer,
                 parole_per_blocco |-> 0,
                 idx |-> 0,
                 scritti |-> <<>>,
                 statistiche |-> <<>>,
                 exit_status |-> Running]
    /\ seg = SegIdle
    /\ mrg = MrgIdle
    /\ doc = DocIdle

\* lines 7-11: the libraries are there
RunImport ==
    /\ run.pc = "import"
    /\ run.librerie
    /\ run' = [run EXCEPT !.pc = "main"]
    /\ UNCHANGED <<seg, mrg, doc>>

\* lines 12-15: a library is missing
RunImportError ==
    /\ run.pc = "import"
    /\ ~run.librerie
    /\ run' = [run EXCEPT !.pc = "exit", !.exit_status = 1]
    /\ UNCHANGED <<seg, mrg, doc>>

\* lines 379-382: no directory on the command line
RunUsage ==
    /\ run.pc = "main"
    /\ run.argc < 2
    /\ run' = [run EXCEPT !.pc = "exit", !.exit_status = 1]
    /\ UNCHANGED <<seg, mrg, doc>>

\* lines 384-387 and 301: elabora_cartella is called
RunCall ==
    /\ run.pc = "main"
    /\ run.argc >= 2
    /\ run' = [run EXCEPT !.pc = "check"]
    /\ UNCHANGED <<seg, mrg, doc>>

\* lines 303-305, then the end of the script: the directory does not exist
RunNoDir ==
    /\ run.pc = "check"
    /\ ~run.esiste
    /\ run' = [run EXCEPT !.pc = "exit", !.exit_status = 0]
    /\ UNCHANGED <<seg, mrg, doc>>

\* lines 307-312, then the end of the script: no PDF file in the directory
RunNoPdf ==
    /\ run.pc = "check"
    /\ run.esiste
    /\ ordina_file_naturalmente(DOMAIN run.cartella) = <<>>
    /\ run' = [run EXCEPT !.pc = "exit", !.exit_status = 0]
    /\ UNCHANGED <<seg, mrg, doc>>

\* lines 307-317: the files are listed and sorted, the output directory made
RunListFiles ==
    /\ run.pc = "check"
    /\ run.esiste
    /\ ordina_file_naturalmente(DOMAIN run.cartella) # <<>>
    /\ run' = [run EXCEPT !.pc = "prompt",
                          !.pdf_files = ordina_file_naturalmente(DOMAIN run.cartella),
                          !.output_creata = TRUE]
    /\ UNCHANGED <<seg, mrg, doc>>

\* Prompt rejecting only the negative numbers
PromptAcceptsZero(r, riga) ==
    LET parole_input == Strip(riga)
        letto == [r EXCEPT !.parole_input = parole_input]
    IN  IF parole_input = <<>>
        THEN [letto EXCEPT !.parole_per_blocco = DefaultParole, !.pc = "loop"]
        ELSE IF ~IntParse(parole_input).ok
        THEN letto
        ELSE IF IntParse(parole_input).val < 0
        THEN [letto EXCEPT !.parole_per_blocco = IntParse(parole_input).val]
        ELSE [letto EXCEPT !.parole_per_blocco = IntParse(parole_input).val,
                           !.pc = "loop"]

\* lines 320-331: one turn of the prompt loop on the line typed
Prompt(r, riga) ==
    LET parole_input == Strip(riga)
        letto == [r EXCEPT !.parole_input = parole_input]
    IN  IF parole_input = <<>>
        THEN [letto EXCEPT !.parole_per_blocco = DefaultParole, !.pc = "loop"]
        ELSE IF ~IntParse(parole_input).ok
        THEN letto
        ELSE IF IntParse(parole_input).val <= 0
        THEN [letto EXCEPT !.parole_per_blocco = IntParse(parole_input).val]
        ELSE [letto EXCEPT !.parole_per_blocco = IntParse(parole_input).val,
                           !.pc = "loop"]

\* lines 319-333
RunPrompt ==
    /\ run.pc = "prompt"
    /\ \E riga \in SeqsUpTo(AnswerAlphabet, MaxAnsLen) : run' = Prompt(run, riga)
    /\ UNCHANGED <<seg, mrg, doc>>

\* ProcessDoc giving up on the batch at a document without text
ProcessDocAbort(r) ==
    LET pdf_file == r.pdf_files[r.idx + 1]
        testo == r.cartella[pdf_file]
    IN  IF Strip(testo) # <<>>
        THEN LET testo_formattato == dividi_in_blocchi_con_frasi(testo, r.parole_per_blocco)
             IN  [r EXCEPT !.idx = @ + 1,
                           !.scritti = Append(@, [stem |-> pdf_file,
                                                  contenuto |-> testo_formattato]),
                           !.statistiche = Append(@, [nome |-> pdf_file,
                                                      parole |-> WordCount(testo),
                                                      blocchi |-> NumBlocchi(testo_formattato)])]
        ELSE [r EXCEPT !.idx = Len(r.pdf_files)]

\* lines 335-360: the next document of the sorted list
ProcessDoc(r) ==
    LET pdf_file == r.pdf_files[r.idx + 1]
        testo == r.cartella[pdf_file]
    IN  IF Strip(testo) # <<>>
        THEN LET testo_formattato == dividi_in_blocchi_con_frasi(testo, r.parole_per_blocco)
             IN  [r EXCEPT !.idx = @ + 1,
                           !.scritti = Append(@, [stem |-> pdf_file,
                                                  contenuto |-> testo_formattato]),
                           !.statistiche = Append(@, [nome |-> pdf_file,
                                                      parole |-> WordCount(testo),
                                                      blocchi |-> NumBlocchi(testo_formattato)])]
        ELSE [r EXCEPT !.idx = @ + 1]

RunDoc ==
    /\ run.pc = "loop"
    /\ run.idx < Len(run.pdf_files)
    /\ run' = ProcessDoc(run)
    /\ UNCHANGED <<seg, mrg, doc>>

\* lines 362-376, then the end of the script
RunSummary ==
    /\ run.pc = "loop"
    /\ run.idx = Len(run.pdf_files)
    /\ run' = [run EXCEPT !.pc = "exit", !.exit_status = 0]
    /\ UNCHANGED <<seg, mrg, doc>>

RunNext ==
    \/ RunImport \/ RunImportError \/ RunUsage \/ RunCall
    \/ RunNoDir \/ RunNoPdf \/ RunListFiles
    \/ RunPrompt \/ RunDoc \/ RunSummary

RunSpec == RunInit /\ [][RunNext]_vars

(***************************************************************************)
(* Claims on the run (RunSpec).                                            *)
(***************************************************************************)
\* elabora_cartella was called: the libraries and the argument are there
RunCalled == run.librerie /\ run.argc >= 2

\* C3: if the input directory does not exist the run ends with a non-zero
\* exit status, before any prompt, without creating the output directory
\* and without writing any file.
C3_MissingDirExitsNonZero ==
    (run.pc = "exit" /\ RunCalled /\ ~run.esiste) =>
        /\ run.exit_status # 0
        /\ run.parole_input = NoAnswer
        /\ ~run.output_creata
        /\ run.scritti = <<>>

\* a decimal numeral of a positive integer, with an optional plus sign
UnsignedPositive(ds) ==
    /\ ds # <<>>
    /\ \A k \in 1..Len(ds) : ds[k] \in Digits
    /\ \E k \in 1..Len(ds) : ds[k] # "0"

\* an answer that is neither empty nor a positive integer
BadAnswer(a) ==
    /\ a # NoAnswer
    /\ a # <<>>
    /\ ~UnsignedPositive(a)
    /\ ~(a[1] = "+" /\ UnsignedPositive(Tail(a)))

\* the run is past the prompt loop
RunAccepted == run.pc = "loop" \/ (run.pc = "exit" /\ run.output_creata)

\* C8: a non-numeric or non-positive answer leaves the run at the prompt,
\* not ended and with no document processed; once the run is past the
\* prompt the last answer was an acceptable one and the block size is a
\* positive integer, 100 for the empty answer.
C8_PromptUntilValid ==
    /\ BadAnswer(run.parole_input) =>
          /\ run.pc = "prompt"
          /\ run.exit_status = Running
          /\ run.idx = 0
          /\ run.scritti = <<>>
    /\ (run.idx > 0 \/ run.scritti # <<>> \/ run.statistiche # <<>>) => RunAccepted
    /\ RunAccepted =>
          /\ run.parole_input # NoAnswer
          /\ ~BadAnswer(run.parole_input)
          /\ run.parole_per_blocco \in Nat \ {0}
          /\ run.parole_input = <<>> => run.parole_per_blocco = DefaultParole

\* back at the prompt after the answer "-2"
C8_Witness ==
    /\ run.pc = "prompt"
    /\ run.parole_input = <<"-", "2">>
    /\ run.parole_per_blocco = 0 - 2
    /\ run.exit_status = Running

\* the documents with text among the first k of the sorted list
TextDocs(k) ==
    SelectSeq(SubSeq(run.pdf_files, 1, k), LAMBDA f : Strip(run.cartella[f]) # <<>>)

\* C9: a document without text gets no file and no statistics entry and
\* does not stop the batch: the files written and the statistics are, in
\* order and once each, the documents with text among those handled so far,
\* and the run ends only after the last document of the sorted list.
C9_EmptyDocSkipped ==
    RunAccepted =>
        /\ run.pdf_files = ordina_file_naturalmente(DOMAIN run.cartella)
        /\ [k \in 1..Len(run.scritti) |-> run.scritti[k].stem] = TextDocs(run.idx)
        /\ [k \in 1..Len(run.statistiche) |-> run.statistiche[k].nome] = TextDocs(run.idx)
        /\ run.pc = "exit" => (run.idx = Len(run.pdf_files) /\ run.exit_status = 0)

\* a finished batch whose first document had no text and whose second has
\* its file and its statistics entry
C9_Witness ==
    /\ run.pc = "exit"
    /\ run.pdf_files = <<1, 2>>
    /\ run.cartella[1] = <<>>
    /\ Len(run.scritti) = 1
    /\ run.scritti[1].stem = 2
    /\ run.statistiche[1].blocchi = 2

=============================================================================
